---- MODULE Spec2Model ----
(***************************************************************************)
(* The post-generation hook hooks/post_gen_project.py as a state machine.  *)
(* The script is one sequential process: pc is its position, fs the        *)
(* project directory, repo the Git repository rooted there, remote the     *)
(* hosting side of "origin".  External commands are modelled by what the   *)
(* script reads from them (exit code, stdout) and by what they do to the   *)
(* repository and the directory.                                           *)
(***************************************************************************)
EXTENDS Integers, Sequences, FiniteSets, TLC

VARIABLES pc, cfg, ident, fs, repo, remote, todo, ret, run, err, g, pre

vars == <<pc, cfg, ident, fs, repo, remote, todo, ret, run, err, g, pre>>

(* ------------------------------ bounds --------------------------------- *)

\* how many times the script is run in the same project directory
MaxRuns == 2
\* longest list of branch names handed to _create_difficulty_branches
MaxNames == 3
\* commits a repository may hold when _safe_commit is exercised on its own
MaxCommits == 3
\* consecutive calls of _safe_commit with no change of the directory between
MaxCalls == 3

(* --------------------------- the directory ----------------------------- *)

IncludeFlags ==
  {"include_github_actions", "dockerfile", "codecov", "devcontainer", "render", "makefile"}

\* the entry of the project directory each include flag governs
AssetOf(f) ==
  CASE f = "include_github_actions" -> ".github"
    [] f = "dockerfile" -> "Dockerfile"
    [] f = "codecov" -> "codecov.yaml"
    [] f = "devcontainer" -> ".devcontainer"
    [] f = "render" -> "render.yaml"
    [] f = "makefile" -> "Makefile"

Assets == {AssetOf(f) : f \in IncludeFlags}

\* top-level entries of PROJECT_DIRECTORY other than .git; "slug" is the
\* directory named after project_slug
Paths == Assets \cup {"README.md", "pyproject.toml", "requirements.txt", "slug", "src"}

\* what an entry holds: "tmpl" as the template generated it, "branch" the
\* README of a difficulty branch, "stub" the one-line README of the clean-up,
\* "gen" a generated requirements.txt, "notebook" the slug directory holding
\* the notebook instead of main.py and __init__.py, "emptydir" a directory
\* with no file below it
Contents == {"absent", "tmpl", "branch", "stub", "gen", "notebook", "emptydir"}

EmptyTree == [p \in Paths |-> "absent"]

\* the directory right after the template was expanded
FreshTemplate ==
  [p \in Paths |-> IF p \in {"requirements.txt", "src"} THEN "absent" ELSE "tmpl"]

Exists(d, p) == d[p] # "absent"

\* Git tracks files, not directories: a directory without files is invisible
WorkTree(d) == [p \in Paths |-> IF d[p] = "emptydir" THEN "absent" ELSE d[p]]

(* --------------------------- the repository ---------------------------- *)

BranchNames == {"main", "master", "correction", "easy", "hard"}

NoRepo ==
  [exists |-> FALSE, cur |-> "main", tip |-> [b \in BranchNames |-> 0],
   commits |-> << >>, index |-> EmptyTree, origin |-> FALSE]

NoRemote == [b \in BranchNames |-> 0]

HasBranch(r, b) == r.tip[b] # 0

LocalBranches(r) == {b \in BranchNames : HasBranch(r, b)}

TreeOf(r, c) == IF c = 0 THEN EmptyTree ELSE r.commits[c].tree

HeadTree(r) == TreeOf(r, r.tip[r.cur])

RECURSIVE Ancestors(_, _)
\* the commits reachable from commit c, c included
Ancestors(r, c) == IF c = 0 THEN {} ELSE {c} \cup Ancestors(r, r.commits[c].parent)

\* the exit code of git remote get-url is not looked at
_has_remote_origin_unchecked(git, r) == git /\ r.exists

\* line 60: git remote get-url origin exits 0
_has_remote_origin(git, r) == git /\ r.exists /\ r.origin

\* line 73: git rev-parse --is-inside-work-tree prints true
_inside_git_repo(git, r) == git /\ r.exists

\* git init [-b name]: a repository with an unborn branch
GitInit(r, name) == [NoRepo EXCEPT !.exists = TRUE, !.cur = name]

\* git add . / git add -A from the root: the index becomes the work tree
GitAdd(r, d) == [r EXCEPT !.index = WorkTree(d)]

\* git add <path>
GitAddPath(r, d, p) == [r EXCEPT !.index[p] = WorkTree(d)[p]]

\* git status --porcelain: the paths it lists
StatusPaths(r, d) ==
  {p \in Paths : r.index[p] # HeadTree(r)[p] \/ WorkTree(d)[p] # r.index[p]}

\* git commit -m msg --no-verify exits 0 iff there is an identity and
\* something staged
CanCommit(r, id) == r.exists /\ id.name /\ id.email /\ r.index # HeadTree(r)

GitCommit(r, msg) ==
  LET c == Len(r.commits) + 1
  IN [r EXCEPT !.commits = Append(@, [parent |-> r.tip[r.cur], tree |-> r.index, msg |-> msg]),
               !.tip[r.cur] = c]

\* git checkout b / git switch b exits 0 iff b exists and no local change
\* sits on a path the two branches differ on
CanCheckout(r, d, b) ==
  /\ r.exists
  /\ HasBranch(r, b)
  /\ \A p \in Paths :
       TreeOf(r, r.tip[b])[p] # HeadTree(r)[p]
         => (WorkTree(d)[p] = HeadTree(r)[p] /\ r.index[p] = HeadTree(r)[p])

GitCheckout(r, b) ==
  [r EXCEPT !.cur = b,
            !.index = [p \in Paths |->
                         IF TreeOf(r, r.tip[b])[p] # HeadTree(r)[p]
                         THEN TreeOf(r, r.tip[b])[p] ELSE r.index[p]]]

\* the work tree after a successful checkout of b
CheckoutFiles(r, d, b) ==
  [p \in Paths |->
     IF TreeOf(r, r.tip[b])[p] # HeadTree(r)[p] THEN TreeOf(r, r.tip[b])[p] ELSE d[p]]

\* git checkout -b b exits 0 iff no branch b exists yet
CanCreateBranch(r, b) == r.exists /\ ~HasBranch(r, b) /\ b # r.cur

GitCreateBranch(r, b) == [r EXCEPT !.tip[b] = r.tip[r.cur], !.cur = b]

(* ------------------------- the script's helpers ------------------------ *)

\* line 21 and line 354: the comma-separated list, split and stripped
branches == <<"correction">>

\* the call returns at once, whatever the repository
_ensure_git_identity_skipped(git, r, id) == [ident |-> id, done |-> FALSE]

\* lines 87-113: (name, email) after the call, and whether the call got past
\* its early return
_ensure_git_identity(git, r, id) ==
  IF ~_inside_git_repo(git, r)
  THEN [ident |-> id, done |-> FALSE]
  ELSE [ident |-> [name |-> TRUE, email |-> TRUE], done |-> TRUE]

\* the commit is made with --allow-empty and without the look at the stage
_safe_commit_allow_empty(r, d, id, msg) ==
  LET r1 == GitAdd(r, d)
  IN IF r1.exists /\ id.name /\ id.email
     THEN [repo |-> GitCommit(r1, msg), raised |-> FALSE]
     ELSE [repo |-> r1, raised |-> TRUE]

\* lines 122-129: raised is TRUE when a check=True command failed
_safe_commit(r, d, id, msg) ==
  LET r1 == GitAdd(r, d)
  IN IF StatusPaths(r1, d) = {}
     THEN [repo |-> r1, raised |-> FALSE]
     ELSE IF CanCommit(r1, id)
          THEN [repo |-> GitCommit(r1, msg), raised |-> FALSE]
          ELSE [repo |-> r1, raised |-> TRUE]

\* lines 132-152
_write_branch_readme(d) == [d EXCEPT !["README.md"] = "branch"]

\* the checkout is never made
CheckoutSkipped(r, d, b) == [repo |-> r, fs |-> d]

\* lines 181-182 and 191-192: git checkout main, a failure suppressed
CheckoutSuppressed(r, d, b) ==
  IF CanCheckout(r, d, b)
  THEN [repo |-> GitCheckout(r, b), fs |-> CheckoutFiles(r, d, b)]
  ELSE [repo |-> r, fs |-> d]

\* the suppress of line 203 around the whole fallback: nothing is raised
_ensure_git_repo_silent(git, r) ==
  IF ~git \/ _inside_git_repo(git, r)
  THEN {[repo |-> r, raised |-> FALSE, res |-> "kept"]}
  ELSE {[repo |-> GitInit(r, "main"), raised |-> FALSE, res |-> "init_b"],
        [repo |-> GitCreateBranch(GitInit(r, "master"), "main"), raised |-> FALSE,
         res |-> "fallback"],
        [repo |-> GitInit(r, "master"), raised |-> FALSE, res |-> "fallback_nomain"],
        [repo |-> r, raised |-> FALSE, res |-> "both_failed"]}

\* lines 195-204 (and the same statements inlined at 338-344 and 409-415):
\* every way the call can end.  git init -b may fail (a Git without -b), the
\* plain git init may fail too, and the fallback's checkout -b may fail.
_ensure_git_repo(git, r) ==
  IF ~git \/ _inside_git_repo(git, r)
  THEN {[repo |-> r, raised |-> FALSE, res |-> "kept"]}
  ELSE {[repo |-> GitInit(r, "main"), raised |-> FALSE, res |-> "init_b"],
        [repo |-> GitCreateBranch(GitInit(r, "master"), "main"), raised |-> FALSE,
         res |-> "fallback"],
        [repo |-> GitInit(r, "master"), raised |-> FALSE, res |-> "fallback_nomain"],
        [repo |-> r, raised |-> TRUE, res |-> "both_failed"]}

\* lines 222-230: "none", or the exception that leaves the call
_ensure_remote_origin(git, r) ==
  IF ~git THEN [repo |-> r, raised |-> "GitNotFoundError"]
  ELSE IF ~r.exists THEN [repo |-> r, raised |-> "CalledProcessError"]
  ELSE [repo |-> [r EXCEPT !.origin = TRUE], raised |-> "none"]

\* the test on the dockerfile flag inverted
RemoveOptionalAssetsInverted(flags, d) ==
  [p \in Paths |->
     IF \E f \in IncludeFlags :
          AssetOf(f) = p /\ ((f = "dockerfile") = (flags[f] = "y"))
     THEN "absent" ELSE d[p]]

\* lines 259-280
RemoveOptionalAssets(flags, d) ==
  [p \in Paths |->
     IF \E f \in IncludeFlags : AssetOf(f) = p /\ flags[f] # "y" THEN "absent" ELSE d[p]]

\* lines 116-119: the top-level entry that holds _slug_dir_path
_slug_dir_path(layout) == IF layout = "src" THEN "src" ELSE "slug"

\* lines 282-301: the directory after the layout handling and slug_path.mkdir
ApplyLayout(layout, d) ==
  IF layout = "src"
  THEN [d EXCEPT !["src"] = IF Exists(d, "slug") THEN d["slug"] ELSE "emptydir",
                 !["slug"] = "absent"]
  ELSE [d EXCEPT !["src"] = "absent",
                 !["slug"] = IF Exists(d, "slug") THEN d["slug"] ELSE "emptydir"]

\* lines 303-331: a notebook project gets its notebook written into the slug
\* directory and main.py and __init__.py removed from it
ApplyProjectType(project_type, layout, d) ==
  IF project_type = "notebook"
  THEN [d EXCEPT ![_slug_dir_path(layout)] = "notebook"]
  ELSE d

\* the push without --all: the checked-out branch alone
PushedTipsCurrentOnly(r) == [b \in BranchNames |-> IF b = r.cur THEN r.tip[b] ELSE 0]

\* line 474: what git push -u origin --all leaves on the remote
PushedTips(r) == r.tip

\* pyproject.toml is skipped like README.md
CleanWorkspaceKeepsPyproject(d) ==
  [p \in Paths |->
     IF p = "README.md" THEN (IF Exists(d, p) THEN d[p] ELSE "stub")
     ELSE IF p = "pyproject.toml" THEN d[p] ELSE "absent"]

\* lines 432-453: README.md recreated if absent, every other entry deleted
CleanWorkspace(d) ==
  [p \in Paths |->
     IF p = "README.md" THEN (IF Exists(d, p) THEN d[p] ELSE "stub") ELSE "absent"]

\* line 436-453: deleted is set when the directory held any other entry
Deleted(d) == \E p \in Paths \ {"README.md"} : Exists(d, p)

(* ------------------------------ the run -------------------------------- *)

NoErr == [kind |-> "none", at |-> "none"]

FreshGhost(r) ==
  [identEnsured |-> FALSE, initRes |-> "none", switched |-> "none",
   pushAll |-> "none", pushTags |-> "none", startBranches |-> LocalBranches(r),
   calls |-> << >>, clean |-> FALSE]

NoSnapshot == [repo |-> NoRepo, fs |-> EmptyTree, names |-> << >>]

Init ==
  /\ pc = "uv"
  /\ cfg \in [flags : [IncludeFlags -> {"y", "n"}],
              create_github_repo : {"n", "public", "private"},
              layout : {"src", "flat"},
              project_type : {"python", "notebook"},
              git : BOOLEAN, gh : BOOLEAN, uv : BOOLEAN, pre_commit : BOOLEAN]
  /\ ident \in [name : BOOLEAN, email : BOOLEAN]
  /\ (~cfg.git => ident = [name |-> FALSE, email |-> FALSE])
  /\ fs = FreshTemplate
  /\ repo = NoRepo
  /\ remote = NoRemote
  /\ todo = << >>
  /\ ret = "none"
  /\ run = 1
  /\ err = NoErr
  /\ g = FreshGhost(NoRepo)
  /\ pre = NoSnapshot

\* an exception nothing catches ends the process
Abort(kind, at) == pc' = "aborted" /\ err' = [kind |-> kind, at |-> at]

\* lines 237-243: uv lock and uv sync, both check=True
UvStep ==
  /\ pc = "uv"
  /\ \E ok \in BOOLEAN :
       IF cfg.uv /\ Exists(fs, "pyproject.toml") /\ ~ok
       THEN Abort("CalledProcessError", "uv")
       ELSE pc' = "ensure_repo" /\ err' = err
  /\ UNCHANGED <<cfg, ident, fs, repo, remote, todo, ret, run, g, pre>>

\* line 246
EnsureRepoStep ==
  /\ pc = "ensure_repo"
  /\ \E o \in _ensure_git_repo(cfg.git, repo) :
       /\ repo' = o.repo
       /\ g' = [g EXCEPT !.initRes = o.res]
       /\ IF o.raised THEN Abort("CalledProcessError", "ensure_repo")
          ELSE pc' = "ensure_identity" /\ err' = err
  /\ UNCHANGED <<cfg, ident, fs, remote, todo, ret, run, pre>>

\* line 247
EnsureIdentityStep ==
  /\ pc = "ensure_identity"
  /\ LET e == _ensure_git_identity(cfg.git, repo, ident)
     IN /\ ident' = e.ident
        /\ g' = [g EXCEPT !.identEnsured = @ \/ e.done]
  /\ pc' = "precommit_install"
  /\ UNCHANGED <<cfg, fs, repo, remote, todo, ret, run, err, pre>>

\* lines 249-257: pre-commit install writes below .git only
PrecommitInstall ==
  /\ pc = "precommit_install"
  /\ pc' = "assets"
  /\ UNCHANGED <<cfg, ident, fs, repo, remote, todo, ret, run, err, g, pre>>

\* lines 259-280
OptionalAssets ==
  /\ pc = "assets"
  /\ fs' = RemoveOptionalAssets(cfg.flags, fs)
  /\ pc' = "layout"
  /\ UNCHANGED <<cfg, ident, repo, remote, todo, ret, run, err, g, pre>>

\* lines 282-331
LayoutStep ==
  /\ pc = "layout"
  /\ fs' = ApplyProjectType(cfg.project_type, cfg.layout, ApplyLayout(cfg.layout, fs))
  /\ pc' = "minimal"
  /\ UNCHANGED <<cfg, ident, repo, remote, todo, ret, run, err, g, pre>>

\* what follows the local commits and branches: the hosting CLI (line 357)
\* unless create_github_repo is "n" (line 404)
AfterBranches == IF cfg.create_github_repo # "n" THEN "gh" ELSE "cleanup"

\* lines 334-346 and 404-417: without git the block is skipped with a
\* message; with git the repository and the identity are ensured once more
MinimalSetup ==
  /\ pc = "minimal"
  /\ IF ~cfg.git
     THEN /\ pc' = AfterBranches
          /\ UNCHANGED <<ident, repo, err, g>>
     ELSE \E o \in _ensure_git_repo(cfg.git, repo) :
            LET e == _ensure_git_identity(cfg.git, o.repo, ident)
            IN /\ repo' = o.repo
               /\ IF o.raised
                  THEN /\ Abort("CalledProcessError", "minimal")
                       /\ UNCHANGED <<ident, g>>
                  ELSE /\ pc' = "initial_commit"
                       /\ err' = err
                       /\ ident' = e.ident
                       /\ g' = [g EXCEPT !.identEnsured = @ \/ e.done]
  /\ UNCHANGED <<cfg, fs, remote, todo, ret, run, pre>>

\* lines 349-355 and 419-424: git add ., the initial commit (its failure
\* suppressed), then the call of _create_difficulty_branches
InitialCommit ==
  /\ pc = "initial_commit"
  /\ LET r1 == GitAdd(repo, fs)
     IN repo' = IF CanCommit(r1, ident) THEN GitCommit(r1, "Initial commit") ELSE r1
  /\ todo' = branches
  /\ ret' = AfterBranches
  /\ pc' = "cdb_base"
  /\ UNCHANGED <<cfg, ident, fs, remote, run, err, g, pre>>

(* lines 179-192: _create_difficulty_branches(todo, project_name), which
   returns to ret *)

\* lines 181-182
CdbBase ==
  /\ pc = "cdb_base"
  /\ LET c == CheckoutSuppressed(repo, fs, "main")
     IN repo' = c.repo /\ fs' = c.fs
  /\ pc' = IF todo = << >> THEN "cdb_back" ELSE "cdb_new"
  /\ UNCHANGED <<cfg, ident, remote, todo, ret, run, err, g, pre>>

\* line 185: git checkout -b br, check=True
CdbNew ==
  /\ pc = "cdb_new"
  /\ IF CanCreateBranch(repo, Head(todo))
     THEN /\ repo' = GitCreateBranch(repo, Head(todo))
          /\ pc' = "cdb_readme"
          /\ err' = err
     ELSE /\ Abort("CalledProcessError", "cdb_new")
          /\ repo' = repo
  /\ UNCHANGED <<cfg, ident, fs, remote, todo, ret, run, g, pre>>

\* line 186
CdbReadme ==
  /\ pc = "cdb_readme"
  /\ fs' = _write_branch_readme(fs)
  /\ pc' = "cdb_commit"
  /\ UNCHANGED <<cfg, ident, repo, remote, todo, ret, run, err, g, pre>>

\* line 187
CdbCommit ==
  /\ pc = "cdb_commit"
  /\ LET s == _safe_commit(repo, fs, ident, "initializing branch with branch-specific README")
     IN /\ repo' = s.repo
        /\ IF s.raised THEN Abort("CalledProcessError", "cdb_commit")
           ELSE pc' = "cdb_hooks" /\ err' = err
  /\ UNCHANGED <<cfg, ident, fs, remote, todo, ret, run, g, pre>>

\* line 189, lines 155-176 with strict=False: the hooks run when pre-commit
\* is installed and the directory is a repository; their exit code is only
\* printed, and a hook may leave a generated requirements.txt behind
CdbHooks ==
  /\ pc = "cdb_hooks"
  /\ IF cfg.pre_commit /\ _inside_git_repo(cfg.git, repo)
     THEN \E generated \in BOOLEAN :
            fs' = IF generated THEN [fs EXCEPT !["requirements.txt"] = "gen"] ELSE fs
     ELSE fs' = fs
  /\ todo' = Tail(todo)
  /\ pc' = IF Tail(todo) = << >> THEN "cdb_back" ELSE "cdb_new"
  /\ UNCHANGED <<cfg, ident, repo, remote, ret, run, err, g, pre>>

\* lines 191-192
CdbBack ==
  /\ pc = "cdb_back"
  /\ LET c == CheckoutSuppressed(repo, fs, "main")
     IN repo' = c.repo /\ fs' = c.fs
  /\ pc' = ret
  /\ UNCHANGED <<cfg, ident, remote, todo, ret, run, err, g, pre>>

\* lines 357-402: gh auth status, gh repo view, then the link of an existing
\* hosted repository or gh repo create --source . -r origin (check=True)
GhStep ==
  /\ pc = "gh"
  /\ \E auth_rc \in {0, 1}, exists_rc \in {0, 1}, created \in BOOLEAN :
       IF ~cfg.gh \/ auth_rc = 1 \/ _has_remote_origin(cfg.git, repo)
       THEN pc' = "cleanup" /\ UNCHANGED <<repo, err>>
       ELSE IF exists_rc = 0
            THEN LET l == _ensure_remote_origin(cfg.git, repo)
                 IN /\ repo' = l.repo
                    /\ IF l.raised = "none" THEN pc' = "cleanup" /\ err' = err
                       ELSE Abort(l.raised, "gh")
            ELSE IF created /\ _inside_git_repo(cfg.git, repo)
                 THEN /\ repo' = [repo EXCEPT !.origin = TRUE]
                      /\ pc' = "cleanup"
                      /\ err' = err
                 ELSE /\ Abort("CalledProcessError", "gh")
                      /\ repo' = repo
  /\ UNCHANGED <<cfg, ident, fs, remote, todo, ret, run, g, pre>>

\* lines 426-459: git switch main; on success the directory is emptied but
\* for README.md and .git, and the deletion committed by _safe_commit
FinalCleanup ==
  /\ pc = "cleanup"
  /\ pre' = [repo |-> repo, fs |-> fs, names |-> << >>]
  /\ IF ~cfg.git
     THEN /\ Abort("GitNotFoundError", "cleanup")
          /\ UNCHANGED <<repo, fs, g>>
     ELSE IF ~CanCheckout(repo, fs, "main")
          THEN /\ g' = [g EXCEPT !.switched = "failed"]
               /\ pc' = "req"
               /\ UNCHANGED <<repo, fs, err>>
          ELSE LET r1 == GitCheckout(repo, "main")
                   d1 == CheckoutFiles(repo, fs, "main")
                   d2 == CleanWorkspace(d1)
                   s  == _safe_commit(r1, d2, ident, "main: clean workspace, keep README only")
               IN /\ g' = [g EXCEPT !.switched = "ok"]
                  /\ fs' = d2
                  /\ IF ~Deleted(d1)
                     THEN repo' = r1 /\ pc' = "req" /\ err' = err
                     ELSE /\ repo' = s.repo
                          /\ IF s.raised THEN Abort("CalledProcessError", "cleanup")
                             ELSE pc' = "req" /\ err' = err
  /\ UNCHANGED <<cfg, ident, remote, todo, ret, run>>

\* lines 461-468: git add requirements.txt (check=True), then a commit, its
\* failure suppressed, when git status lists the file
RequirementsStep ==
  /\ pc = "req"
  /\ IF ~Exists(fs, "requirements.txt")
     THEN repo' = repo
     ELSE LET r1 == GitAddPath(repo, fs, "requirements.txt")
          IN repo' = IF "requirements.txt" \in StatusPaths(r1, fs) /\ CanCommit(r1, ident)
                     THEN GitCommit(r1, "chore: add generated requirements.txt")
                     ELSE r1
  /\ pc' = "push"
  /\ UNCHANGED <<cfg, ident, fs, remote, todo, ret, run, err, g, pre>>

\* lines 470-481: git push -u origin --all, then git push -u origin --tags
\* with its failure suppressed; a failure of the first push is only printed
FinalPush ==
  /\ pc = "push"
  /\ IF _has_remote_origin(cfg.git, repo)
     THEN \E all_ok \in BOOLEAN, tags_ok \in BOOLEAN :
            /\ remote' = IF all_ok THEN PushedTips(repo) ELSE remote
            /\ g' = [g EXCEPT !.pushAll = IF all_ok THEN "ok" ELSE "failed",
                              !.pushTags = IF ~all_ok THEN "none"
                                           ELSE IF tags_ok THEN "ok" ELSE "failed"]
     ELSE UNCHANGED <<remote, g>>
  /\ pc' = "done"
  /\ UNCHANGED <<cfg, ident, fs, repo, todo, ret, run, err, pre>>

\* the script is started again in the directory a completed run left
Rerun ==
  /\ pc = "done"
  /\ run < MaxRuns
  /\ run' = run + 1
  /\ pc' = "uv"
  /\ g' = FreshGhost(repo)
  /\ todo' = << >>
  /\ ret' = "none"
  /\ pre' = NoSnapshot
  /\ UNCHANGED <<cfg, ident, fs, repo, remote, err>>

Next ==
  \/ UvStep
  \/ EnsureRepoStep
  \/ EnsureIdentityStep
  \/ PrecommitInstall
  \/ OptionalAssets
  \/ LayoutStep
  \/ MinimalSetup
  \/ InitialCommit
  \/ CdbBase
  \/ CdbNew
  \/ CdbReadme
  \/ CdbCommit
  \/ CdbHooks
  \/ CdbBack
  \/ GhStep
  \/ FinalCleanup
  \/ RequirementsStep
  \/ FinalPush
  \/ Rerun

Spec == Init /\ [][Next]_vars

(* ---------------- _create_difficulty_branches on its own ---------------- *)

RECURSIVE SeqsUpTo(_, _)
\* the sequences over S of length at most n
SeqsUpTo(S, n) ==
  IF n = 0 THEN {<< >>}
  ELSE LET shorter == SeqsUpTo(S, n - 1)
       IN shorter \cup {Append(q, x) : q \in shorter, x \in S}

Range(q) == {q[i] : i \in 1..Len(q)}

\* the call of lines 355 and 424 with any list of names: the repository holds
\* the initial commit of the directory the earlier steps left, on main, and
\* the caller may stand on main or on another branch of the same commit
InitBranches ==
  /\ pc = "cdb_base"
  /\ cfg \in [flags : [IncludeFlags -> {"y", "n"}],
              create_github_repo : {"n"},
              layout : {"src", "flat"},
              project_type : {"python"},
              git : {TRUE}, gh : {FALSE}, uv : {FALSE}, pre_commit : BOOLEAN]
  /\ ident = [name |-> TRUE, email |-> TRUE]
  /\ fs = ApplyLayout(cfg.layout, RemoveOptionalAssets(cfg.flags, FreshTemplate))
  /\ \E start \in {"main", "master"} :
       repo = LET r0 == GitCommit(GitAdd(GitInit(NoRepo, "main"), fs), "Initial commit")
              IN IF start = "main" THEN r0 ELSE GitCreateBranch(r0, start)
  /\ remote = NoRemote
  /\ todo \in SeqsUpTo({"correction", "easy", "hard"}, MaxNames)
  /\ ret = "returned"
  /\ run = 1
  /\ err = NoErr
  /\ g = FreshGhost(repo)
  /\ pre = [repo |-> repo, fs |-> fs, names |-> todo]

NextBranches ==
  \/ CdbBase
  \/ CdbNew
  \/ CdbReadme
  \/ CdbCommit
  \/ CdbHooks
  \/ CdbBack

SpecBranches == InitBranches /\ [][NextBranches]_vars

(* ------------------------ _safe_commit on its own ---------------------- *)

\* the entries the directory and the trees vary on
CommitPaths == {"README.md", "Makefile", "slug"}

\* the trees over CommitPaths
CommitTrees ==
  {[p \in Paths |-> CASE p = "README.md" -> a [] p = "Makefile" -> b [] p = "slug" -> c
                       [] OTHER -> "absent"] :
     a \in {"absent", "tmpl", "branch"}, b \in {"absent", "tmpl"}, c \in {"absent", "tmpl"}}

\* any repository on main, with no commit or one, anything staged, and any
\* directory, an empty slug directory included
InitCommit ==
  /\ pc = "safe_commit"
  /\ cfg = [flags |-> [f \in IncludeFlags |-> "y"], create_github_repo |-> "n",
            layout |-> "flat", project_type |-> "python",
            git |-> TRUE, gh |-> FALSE, uv |-> FALSE, pre_commit |-> FALSE]
  /\ ident \in [name : BOOLEAN, email : BOOLEAN]
  /\ \E t \in CommitTrees, e \in BOOLEAN :
       fs = IF e /\ t["slug"] = "absent" THEN [t EXCEPT !["slug"] = "emptydir"] ELSE t
  /\ \E h \in CommitTrees, i \in CommitTrees :
       repo = IF h = EmptyTree
              THEN [GitInit(NoRepo, "main") EXCEPT !.index = i]
              ELSE [GitCommit([GitInit(NoRepo, "main") EXCEPT !.index = h], "Initial commit")
                      EXCEPT !.index = i]
  /\ remote = NoRemote
  /\ todo = << >>
  /\ ret = "none"
  /\ run = 1
  /\ err = NoErr
  /\ g = FreshGhost(repo)
  /\ pre = NoSnapshot

\* one call of _safe_commit; calls records, for the calls made since the
\* directory last changed, the commits each created, whether the work tree
\* was clean when it was made, and whether it raised
SafeCommitCall ==
  /\ pc = "safe_commit"
  /\ Len(g.calls) < MaxCalls
  /\ LET s == _safe_commit(repo, fs, ident, "commit")
     IN /\ repo' = s.repo
        /\ g' = [g EXCEPT !.calls =
                   Append(@, [made |-> Len(s.repo.commits) - Len(repo.commits),
                              clean |-> StatusPaths(repo, fs) = {},
                              raised |-> s.raised])]
  /\ UNCHANGED <<pc, cfg, ident, fs, remote, todo, ret, run, err, pre>>

\* something else changes an entry of the directory
DirectoryChange ==
  /\ pc = "safe_commit"
  /\ Len(repo.commits) < MaxCommits
  /\ \E p \in CommitPaths, c \in {"absent", "tmpl", "branch"} :
       /\ c # fs[p]
       /\ (c = "branch" => p = "README.md")
       /\ fs' = [fs EXCEPT ![p] = c]
  /\ g' = [g EXCEPT !.calls = << >>]
  /\ UNCHANGED <<pc, cfg, ident, repo, remote, todo, ret, run, err, pre>>

NextCommit ==
  \/ SafeCommitCall
  \/ DirectoryChange

SpecCommit == InitCommit /\ [][NextCommit]_vars

(* ------------------------------ the claims ----------------------------- *)

CleanupMessage == "main: clean workspace, keep README only"

RequirementsMessage == "chore: add generated requirements.txt"

\* the commits made since the snapshot pre
NewCommits == (Len(pre.repo.commits) + 1)..Len(repo.commits)

\* C1: a missing git executable never ends the run with an exception: when
\* GIT_EXE is None no run is aborted by GitNotFoundError.
C1_MissingGitNeverFatal ==
  ~cfg.git => ~(pc = "aborted" /\ err.kind = "GitNotFoundError")

\* C2: of the calls of _safe_commit made in a row with no change of the
\* directory between them only the first can create a commit, and a call on
\* a clean work tree creates none.
C2_SafeCommitOnce ==
  \A i \in 1..Len(g.calls) :
    /\ g.calls[i].made \in {0, 1}
    /\ (i > 1 => g.calls[i].made = 0)
    /\ (g.calls[i].clean => g.calls[i].made = 0)

C2_Witness ==
  /\ Len(g.calls) >= 2
  /\ g.calls[1].made = 1
  /\ g.calls[2].made = 0
  /\ ~g.calls[2].raised

\* C3: when _create_difficulty_branches(names, ...) returns on a repository
\* that had main, the new branches are exactly the names, one per name, each
\* holds a commit main does not hold, and main is checked out.
C3_BranchSequence ==
  pc = "returned" =>
    /\ LocalBranches(repo) \ LocalBranches(pre.repo) = Range(pre.names)
    /\ Cardinality(Range(pre.names)) = Len(pre.names)
    /\ \A b \in Range(pre.names) :
         Ancestors(repo, repo.tip[b]) \ Ancestors(repo, repo.tip["main"]) # {}
    /\ repo.cur = "main"

C3_Witness ==
  /\ pc = "returned"
  /\ Len(pre.names) = 3
  /\ \A b \in {"correction", "easy", "hard"} : HasBranch(repo, b)
  /\ pre.repo.cur = "master"

\* C4: at the end of a run the push of all branches was issued iff origin is
\* configured; the tag push is issued only after that push succeeded, its
\* failure does not abort the run; without origin nothing reaches the remote
\* side and the run still ends normally.
C4_PushIffOrigin ==
  /\ pc = "done" => ((g.pushAll # "none") <=> repo.origin)
  /\ g.pushTags # "none" => g.pushAll = "ok"
  /\ g.pushTags = "failed" => pc = "done"
  /\ g.pushAll = "none" => g.pushTags = "none"
  /\ (pc = "done" /\ ~repo.origin) => remote = NoRemote
  /\ pc = "aborted" => err.at # "push"

C4_Witness ==
  /\ pc = "done"
  /\ repo.origin
  /\ g.pushAll = "ok"
  /\ g.pushTags = "failed"

\* C5 as stated: a run that ends with origin configured has pushed every
\* local branch to it.
C5_AllBranchesPushed ==
  (pc = "done" /\ repo.origin) => \A b \in LocalBranches(repo) : remote[b] = repo.tip[b]

\* C5 amended: a run that reaches its end with origin configured has issued
\* the push of all branches, and every local branch is on the remote unless
\* that push failed.
C5_PushedUnlessPushFailed ==
  (pc = "done" /\ repo.origin) =>
    /\ g.pushAll # "none"
    /\ (g.pushAll = "ok" => \A b \in LocalBranches(repo) : remote[b] = repo.tip[b])

C5_Witness ==
  /\ pc = "done"
  /\ repo.origin
  /\ g.pushAll = "ok"
  /\ repo.cur = "main"
  /\ remote["correction"] # 0

\* C6 as stated: after the run each optional entry is present iff its flag
\* is "y".
C6_AssetIffFlag ==
  (run = 1 /\ pc = "done") =>
    \A f \in IncludeFlags : Exists(fs, AssetOf(f)) <=> (cfg.flags[f] = "y")

\* C6 amended: in the run on the generated project each optional entry is
\* present iff its flag is "y" once the optional-assets step is over, and at
\* the end of the run iff its flag is "y" and the clean-up of main was
\* skipped; an entry whose flag is not "y" is absent in both places.
C6_AssetIffFlagUntilCleanup ==
  run = 1 =>
    /\ pc = "layout" =>
         \A f \in IncludeFlags : Exists(fs, AssetOf(f)) <=> (cfg.flags[f] = "y")
    /\ pc = "done" =>
         \A f \in IncludeFlags :
           Exists(fs, AssetOf(f)) <=> (cfg.flags[f] = "y" /\ g.switched = "failed")

C6_Witness ==
  /\ run = 1
  /\ pc = "done"
  /\ g.switched = "ok"
  /\ cfg.flags["dockerfile"] = "y"
  /\ cfg.flags["makefile"] = "n"
  /\ ~Exists(fs, "Dockerfile")

\* C7: a step that adds a commit is taken only after _ensure_git_identity
\* went through in a repository of this run, with name and email set; and
\* once the final push was issued no step adds a commit or moves or creates
\* a branch.
C7_CausalOrder ==
  [][/\ Len(repo'.commits) > Len(repo.commits) =>
          (g.identEnsured /\ ident.name /\ ident.email)
     /\ g.pushAll # "none" => (repo'.commits = repo.commits /\ repo'.tip = repo.tip)]_vars

C7_Witness ==
  /\ pc = "done"
  /\ g.pushAll = "ok"
  /\ \E c \in 1..Len(repo.commits) : repo.commits[c].msg = RequirementsMessage
  /\ \E c \in 1..Len(repo.commits) : repo.commits[c].msg = "Initial commit"

\* C8 as stated: when git init -b and the plain git init both fail the run
\* is not aborted.
C8_InitFailureSilent ==
  g.initRes = "both_failed" => pc # "aborted"

\* C8 amended: when both fail, the CalledProcessError of the plain git init
\* leaves _ensure_git_repo and aborts the run with no repository; only a
\* failure of the fallback's checkout -b main is suppressed, and the run goes
\* on in the repository on its default branch.
C8_InitFailureAborts ==
  /\ g.initRes = "both_failed" =>
       (pc = "aborted" /\ err = [kind |-> "CalledProcessError", at |-> "ensure_repo"]
        /\ ~repo.exists)
  /\ (g.initRes = "fallback_nomain" /\ pc = "ensure_identity") =>
       (repo.exists /\ repo.cur = "master" /\ err = NoErr)

C8_Witness ==
  /\ g.initRes = "both_failed"
  /\ pc = "aborted"
  /\ cfg.git

\* C9: a run started in the directory a completed run left is not aborted
\* by what that run left (only a failing uv or gh command may end it), and
\* it ends with the branches it started with.
C9_RerunIdempotent ==
  run > 1 =>
    /\ pc = "aborted" => err.at \in {"uv", "gh"}
    /\ pc = "done" => LocalBranches(repo) = g.startBranches

\* C10: when git switch main succeeded, main tracks README.md alone from
\* then on, the commits added by the clean-up are one at most, on main, and
\* every other branch keeps its tip and the commits it had; when the switch
\* failed, the directory is as it was and no clean-up commit exists.
C10_CleanupOnlyMain ==
  (pc \in {"req", "push", "done"}) =>
    /\ g.switched = "ok" =>
         /\ \A p \in Paths :
              Exists(TreeOf(repo, repo.tip["main"]), p) <=> (p = "README.md")
         /\ \A b \in BranchNames \ {"main"} : repo.tip[b] = pre.repo.tip[b]
         /\ \A c \in 1..Len(pre.repo.commits) : repo.commits[c] = pre.repo.commits[c]
         /\ Cardinality(NewCommits) <= 1
         /\ \A c \in NewCommits :
              /\ repo.commits[c].msg = CleanupMessage
              /\ repo.tip["main"] = c
              /\ repo.commits[c].parent = pre.repo.tip["main"]
    /\ g.switched = "failed" =>
         /\ fs = pre.fs
         /\ \A c \in NewCommits : repo.commits[c].msg # CleanupMessage
         /\ repo.cur = pre.repo.cur

C10_Witness ==
  /\ pc = "done"
  /\ g.switched = "ok"
  /\ HasBranch(repo, "correction")
  /\ repo.tip["correction"] # repo.tip["main"]
  /\ \E c \in NewCommits : repo.commits[c].msg = CleanupMessage
  /\ Exists(TreeOf(repo, repo.tip["correction"]), "pyproject.toml")

====
